---- MODULE Spec2Model ----
(***************************************************************************)
(* Address book of task_one.py: Field validators (Phone, Birthday),        *)
(* Record, AddressBook, the command functions wrapped by input_error, and  *)
(* the command loop of main().                                             *)
(*                                                                         *)
(* A Python str is a sequence of one-character strings.  A raised          *)
(* exception is a result record [ok |-> FALSE, exc, msg]; a normal return  *)
(* is [ok |-> TRUE, ...] and carries the record or the book as the call    *)
(* leaves it.  A Record object is stored under one key of the book only    *)
(* (the key is its name), so the book holds its records by value.          *)
(***************************************************************************)
EXTENDS Integers, Sequences, FiniteSets, TLC

VARIABLES
    data,    \* AddressBook.data of the one book: the dict's items, in order
    last,    \* the last call: the operation, its arguments and its outcome
    pc,      \* main(): "loop" at the prompt, "exited" after break, "crashed"
    saved    \* what save_data wrote, None before

vars == <<data, last, pc, saved>>

-----------------------------------------------------------------------------
(* Bounds of the model *)

\* longest phone list a record is given
MaxPhones == 3
\* the years "today" is drawn from in the calendar specification
FirstYear == 2023
LastYear == 2024

-----------------------------------------------------------------------------
(* Python values *)

None == [none |-> TRUE]

\* an int where None may stand instead
IntVal(n) == [int |-> n]

Rep(c, n) == [i \in 1..n |-> c]

DigitChars == <<"0", "1", "2", "3", "4", "5", "6", "7", "8", "9">>

\* a character str.isdigit() accepts and that is not a decimal digit (U+00B2)
SuperscriptTwo == "SUPERSCRIPT_TWO"

IsAsciiDigit(c) == \E i \in 1..Len(DigitChars) : DigitChars[i] = c

DigitVal(c) == (CHOOSE i \in 1..Len(DigitChars) : DigitChars[i] = c) - 1

\* str.isdigit(): non-empty and every character has the Unicode digit property
IsDigitChar(c) == IsAsciiDigit(c) \/ c = SuperscriptTwo

IsDigit(s) == Len(s) > 0 /\ \A i \in 1..Len(s) : IsDigitChar(s[i])

\* a normal return of val, and a raised exception
Ok(val) == [ok |-> TRUE, exc |-> "", msg |-> "", val |-> val]

Raise(exc, msg) == [ok |-> FALSE, exc |-> exc, msg |-> msg, val |-> None]

\* the outcome r of a method together with the record, or the book, as the
\* method leaves it
OnRec(r, rec) ==
    [ok |-> r.ok, exc |-> r.exc, msg |-> r.msg, val |-> r.val, rec |-> rec]

OnData(r, d) ==
    [ok |-> r.ok, exc |-> r.exc, msg |-> r.msg, val |-> r.val, data |-> d]

-----------------------------------------------------------------------------
(* Phone *)

PhoneLen == 10

\* ValidatePhone without its length check
ValidatePhone_NoLength(phone) ==
    IF ~IsDigit(phone)
    THEN Raise("ValueError", "The phone number must contain only numbers")
    ELSE Ok(phone)

\* Phone.__validate_phone
ValidatePhone(phone) ==
    IF Len(phone) # PhoneLen
    THEN Raise("ValueError", "The phone number must contain 10 digits")
    ELSE IF ~IsDigit(phone)
    THEN Raise("ValueError", "The phone number must contain only numbers")
    ELSE Ok(phone)

\* Phone.__init__: the object is its validated value
Phone(phone) == ValidatePhone(phone)

-----------------------------------------------------------------------------
(* datetime.date, as the calendar the code relies on *)

Date(y, m, d) == [year |-> y, month |-> m, day |-> d]

IsLeap(y) == (y % 4 = 0) /\ ((y % 100 # 0) \/ (y % 400 = 0))

DaysInMonth(y, m) ==
    IF m = 2 THEN (IF IsLeap(y) THEN 29 ELSE 28)
    ELSE IF m \in {4, 6, 9, 11} THEN 30 ELSE 31

ValidDate(y, m, d) ==
    /\ y \in 1..9999
    /\ m \in 1..12
    /\ d \in 1..DaysInMonth(y, m)

DaysBeforeYear(y) ==
    LET p == y - 1 IN p * 365 + (p \div 4) - (p \div 100) + (p \div 400)

RECURSIVE DaysBeforeMonth(_, _)
DaysBeforeMonth(y, m) ==
    IF m = 1 THEN 0 ELSE DaysBeforeMonth(y, m - 1) + DaysInMonth(y, m - 1)

\* date.toordinal()
ToOrdinal(dt) == DaysBeforeYear(dt.year) + DaysBeforeMonth(dt.year, dt.month) + dt.day

\* date.__lt__: comparison of (year, month, day)
DateLess(a, b) ==
    \/ a.year < b.year
    \/ a.year = b.year /\ a.month < b.month
    \/ a.year = b.year /\ a.month = b.month /\ a.day < b.day

\* date.replace(year=y): ValueError when the day does not exist in year y
ReplaceYear(dt, y) ==
    IF ValidDate(y, dt.month, dt.day)
    THEN Ok(Date(y, dt.month, dt.day))
    ELSE Raise("ValueError", "day is out of range for month")

\* (a - b).days
DaysBetween(a, b) == ToOrdinal(a) - ToOrdinal(b)

-----------------------------------------------------------------------------
(* Birthday *)

RECURSIVE SplitOn(_, _)
\* the fields of s between the separator characters
SplitOn(s, sep) ==
    IF \A i \in 1..Len(s) : s[i] # sep THEN <<s>>
    ELSE LET k == CHOOSE i \in 1..Len(s) :
                      s[i] = sep /\ \A j \in 1..(i - 1) : s[j] # sep
         IN <<SubSeq(s, 1, k - 1)>> \o SplitOn(SubSeq(s, k + 1, Len(s)), sep)

RECURSIVE ToInt(_)
ToInt(s) ==
    IF Len(s) = 0 THEN 0
    ELSE ToInt(SubSeq(s, 1, Len(s) - 1)) * 10 + DigitVal(s[Len(s)])

AllAsciiDigits(s) == \A i \in 1..Len(s) : IsAsciiDigit(s[i])

\* datetime.strptime(birthday, "%d.%m.%Y").date(): one or two digits for the
\* day (1..31) and the month (1..12), exactly four for the year, and the
\* date must exist
Strptime(birthday) ==
    LET parts == SplitOn(birthday, ".")
        bad == Raise("ValueError", "time data does not match format")
    IN  IF Len(parts) # 3 THEN bad
        ELSE LET dd == parts[1]
                 mm == parts[2]
                 yy == parts[3]
             IN  IF ~(/\ Len(dd) \in 1..2 /\ AllAsciiDigits(dd)
                      /\ Len(mm) \in 1..2 /\ AllAsciiDigits(mm)
                      /\ Len(yy) = 4 /\ AllAsciiDigits(yy))
                 THEN bad
                 ELSE IF ~(ToInt(dd) \in 1..31 /\ ToInt(mm) \in 1..12) THEN bad
                 ELSE IF ~ValidDate(ToInt(yy), ToInt(mm), ToInt(dd))
                 THEN Raise("ValueError", "day is out of range for month")
                 ELSE Ok(Date(ToInt(yy), ToInt(mm), ToInt(dd)))

\* Birthday.__validate_birthday
ValidateBirthday(birthday) ==
    LET r == Strptime(birthday)
    IN  IF r.ok THEN r
        ELSE Raise("ValueError", "Invalid date format. Use DD.MM.YYYY")

\* Birthday.__init__
Birthday(birthday) == ValidateBirthday(birthday)

-----------------------------------------------------------------------------
(* Record *)

\* Record.__init__
Record(name) == [name |-> name, phones |-> <<>>, birthday |-> None]

\* Record.add_phone
AddPhone(rec, phone) ==
    LET phone_obj == Phone(phone)
    IN  IF ~phone_obj.ok THEN OnRec(phone_obj, rec)
        ELSE OnRec(Ok(None), [rec EXCEPT !.phones = Append(@, phone_obj.val)])

\* find_phone returning the last match
FindPhone_Last(rec, phone) ==
    IF \E i \in 1..Len(rec.phones) : rec.phones[i] = phone
    THEN Ok(CHOOSE i \in 1..Len(rec.phones) :
                /\ rec.phones[i] = phone
                /\ \A j \in (i + 1)..Len(rec.phones) : rec.phones[j] # phone)
    ELSE Raise("ValueError", "Phone number not found.")

\* Record.find_phone: the first Phone object of the list whose value is
\* phone.  The objects of one list are pairwise distinct, so an object is
\* identified by its position.
FindPhone(rec, phone) ==
    IF \E i \in 1..Len(rec.phones) : rec.phones[i] = phone
    THEN Ok(CHOOSE i \in 1..Len(rec.phones) :
                /\ rec.phones[i] = phone
                /\ \A j \in 1..(i - 1) : rec.phones[j] # phone)
    ELSE Raise("ValueError", "Phone number not found.")

\* list.index(obj), also the position list.remove(obj) deletes: Phone
\* defines no __eq__, so the first element equal to obj is obj itself
ListIndex(phones, obj) == obj

RemoveAt(s, i) == SubSeq(s, 1, i - 1) \o SubSeq(s, i + 1, Len(s))

\* remove_phone deleting every entry of that value
RemovePhone_Every(rec, phone) ==
    LET phone_obj == FindPhone(rec, phone)
    IN  IF ~phone_obj.ok THEN OnRec(phone_obj, rec)
        ELSE OnRec(Ok(None),
                   [rec EXCEPT
                      !.phones = SelectSeq(@, LAMBDA q : q # phone)])

\* Record.remove_phone
RemovePhone(rec, phone) ==
    LET phone_obj == FindPhone(rec, phone)
    IN  IF ~phone_obj.ok THEN OnRec(phone_obj, rec)
        ELSE OnRec(Ok(None),
                   [rec EXCEPT
                      !.phones = RemoveAt(@, ListIndex(@, phone_obj.val))])

\* edit_phone storing the new number before it validates it
EditPhone_NotAtomic(rec, old_phone, new_phone) ==
    LET old_phone_obj == FindPhone(rec, old_phone)
    IN  IF ~old_phone_obj.ok THEN OnRec(old_phone_obj, rec)
        ELSE LET index == ListIndex(rec.phones, old_phone_obj.val)
                 changed == [rec EXCEPT !.phones[index] = new_phone]
                 new_phone_obj == Phone(new_phone)
             IN  IF ~new_phone_obj.ok THEN OnRec(new_phone_obj, changed)
                 ELSE OnRec(Ok(None), changed)

\* Record.edit_phone
EditPhone(rec, old_phone, new_phone) ==
    LET old_phone_obj == FindPhone(rec, old_phone)
    IN  IF ~old_phone_obj.ok THEN OnRec(old_phone_obj, rec)
        ELSE LET new_phone_obj == Phone(new_phone)
             IN  IF ~new_phone_obj.ok THEN OnRec(new_phone_obj, rec)
                 ELSE LET index == ListIndex(rec.phones, old_phone_obj.val)
                      IN  OnRec(Ok(None),
                                [rec EXCEPT !.phones[index] = new_phone_obj.val])

\* Record.add_birthday
AddBirthday(rec, birthday) ==
    LET b == Birthday(birthday)
    IN  IF ~b.ok THEN OnRec(b, rec)
        ELSE OnRec(Ok(None), [rec EXCEPT !.birthday = b.val])

\* Record.days_to_birthday, with today = datetime.now().date()
DaysToBirthday(rec, today) ==
    IF rec.birthday = None THEN Ok(None)
    ELSE LET this_year == ReplaceYear(rec.birthday, today.year)
         IN  IF ~this_year.ok THEN this_year
             ELSE IF DateLess(this_year.val, today)
             THEN LET next_year == ReplaceYear(this_year.val, today.year + 1)
                  IN  IF ~next_year.ok THEN next_year
                      ELSE Ok(IntVal(DaysBetween(next_year.val, today)))
             ELSE Ok(IntVal(DaysBetween(this_year.val, today)))

-----------------------------------------------------------------------------
(* AddressBook: a dict keeps its keys in insertion order, so the book is   *)
(* the sequence of its (key, record) items                                 *)

Keys(d) == {d[i].key : i \in 1..Len(d)}

KeyPos(d, k) == CHOOSE i \in 1..Len(d) : d[i].key = k

\* an assignment that never replaces
DictSet_Append(d, k, v) == Append(d, [key |-> k, rec |-> v])

\* self.data[k] = v
DictSet(d, k, v) ==
    IF k \in Keys(d)
    THEN [d EXCEPT ![KeyPos(d, k)] = [key |-> k, rec |-> v]]
    ELSE Append(d, [key |-> k, rec |-> v])

\* add_record keeping the phones of the record it replaces
AddRecord_Merge(d, record) ==
    IF record.name \in Keys(d)
    THEN DictSet(d, record.name,
                 [record EXCEPT
                    !.phones = d[KeyPos(d, record.name)].rec.phones \o @])
    ELSE DictSet(d, record.name, record)

\* AddressBook.add_record
AddRecord(d, record) == DictSet(d, record.name, record)

\* AddressBook.find
Find(d, name) == IF name \in Keys(d) THEN d[KeyPos(d, name)].rec ELSE None

\* AddressBook.delete
Delete(d, name) ==
    IF name \in Keys(d)
    THEN OnData(Ok(None), RemoveAt(d, KeyPos(d, name)))
    ELSE OnData(Raise("ValueError", "Record not found."), d)

DefaultDays == 7

RECURSIVE UpcomingFrom(_, _, _, _)
\* the loop of get_upcoming_birthdays over self.data.values(), from item i
\* on: the records it appends, or the exception that ends it
UpcomingFrom(d, i, days, today) ==
    IF i > Len(d) THEN Ok(<<>>)
    ELSE LET record == d[i].rec
             rest == UpcomingFrom(d, i + 1, days, today)
         IN  IF record.birthday = None THEN rest
             ELSE LET days_to_birthday == DaysToBirthday(record, today)
                  IN  IF ~days_to_birthday.ok THEN days_to_birthday
                      ELSE IF ~rest.ok THEN rest
                      ELSE IF days_to_birthday.val # None
                              /\ days_to_birthday.val.int <= days
                      THEN Ok(<<record>> \o rest.val)
                      ELSE rest

\* AddressBook.get_upcoming_birthdays
GetUpcomingBirthdays(d, days, today) ==
    OnData(UpcomingFrom(d, 1, days, today), d)

-----------------------------------------------------------------------------
(* Command functions.  What a command prints is kept as a record: the      *)
(* fixed text, and the values formatted into it.                           *)

Out(text) == [text |-> text]

Caught == {"KeyError", "ValueError", "IndexError"}

\* input_error: the wrapped function's return value, or str(e) of a caught
\* exception; what the function did to the book before it raised stays done
InputError(r) ==
    IF ~r.ok /\ r.exc \in Caught THEN OnData(Ok(Out(r.msg)), r.data) ELSE r

\* "a, b, *_ = args" with n names before the star
Unpack(args, n) ==
    IF Len(args) < n
    THEN Raise("ValueError", "not enough values to unpack")
    ELSE Ok(args)

\* add_contact, undecorated
add_contact_body(args, d) ==
    IF ~Unpack(args, 2).ok THEN OnData(Unpack(args, 2), d)
    ELSE LET name == args[1]
             phone == args[2]
             found == Find(d, name)
             record == IF found = None THEN Record(name) ELSE found
             d1 == IF found = None THEN AddRecord(d, record) ELSE d
             message == IF found = None THEN "Contact added."
                                        ELSE "Contact updated."
         IN  IF phone # <<>>
             THEN LET r == AddPhone(record, phone)
                  IN  IF ~r.ok THEN OnData(r, DictSet(d1, name, r.rec))
                      ELSE OnData(Ok(Out(message)), DictSet(d1, name, r.rec))
             ELSE OnData(Ok(Out(message)), d1)

add_contact(args, d) == InputError(add_contact_body(args, d))

\* change_contact, undecorated
change_contact_body(args, d) ==
    IF ~Unpack(args, 3).ok THEN OnData(Unpack(args, 3), d)
    ELSE LET name == args[1]
             old_phone == args[2]
             new_phone == args[3]
             record == Find(d, name)
         IN  IF record = None THEN OnData(Ok(Out("Contact not found.")), d)
             ELSE LET r == EditPhone(record, old_phone, new_phone)
                  IN  IF ~r.ok THEN OnData(r, DictSet(d, name, r.rec))
                      ELSE OnData(Ok(Out("Phone number updated.")),
                                  DictSet(d, name, r.rec))

change_contact(args, d) == InputError(change_contact_body(args, d))

\* show_phone, undecorated
show_phone_body(args, d) ==
    IF ~Unpack(args, 1).ok THEN OnData(Unpack(args, 1), d)
    ELSE LET name == args[1]
             record == Find(d, name)
         IN  IF record = None THEN OnData(Ok(Out("Contact not found.")), d)
             ELSE OnData(Ok([text |-> "{name}'s phone numbers: {phones}",
                             name |-> name, phones |-> record.phones]), d)

show_phone(args, d) == InputError(show_phone_body(args, d))

\* show_all_contacts, with Record.__str__ for each record
show_all_contacts(d) ==
    IF Len(d) = 0 THEN OnData(Ok(Out("Address book is empty.")), d)
    ELSE OnData(Ok([text |-> "All contacts:",
                    records |-> [i \in 1..Len(d) |-> d[i].rec]]), d)

\* add_birthday (the command), undecorated
add_birthday_body(args, d) ==
    IF ~Unpack(args, 2).ok THEN OnData(Unpack(args, 2), d)
    ELSE LET name == args[1]
             birthday == args[2]
             record == Find(d, name)
         IN  IF record = None THEN OnData(Ok(Out("Contact not found.")), d)
             ELSE LET r == AddBirthday(record, birthday)
                  IN  IF ~r.ok THEN OnData(r, DictSet(d, name, r.rec))
                      ELSE OnData(Ok(Out("Birthday added.")),
                                  DictSet(d, name, r.rec))

add_birthday(args, d) == InputError(add_birthday_body(args, d))

\* show_birthday, undecorated
show_birthday_body(args, d) ==
    IF ~Unpack(args, 1).ok THEN OnData(Unpack(args, 1), d)
    ELSE LET name == args[1]
             record == Find(d, name)
         IN  IF record = None THEN OnData(Ok(Out("Contact not found.")), d)
             ELSE IF record.birthday = None
             THEN OnData(Ok(Out("No birthday set for this contact.")), d)
             ELSE OnData(Ok([text |-> "{name}'s birthday is {birthday}",
                             name |-> name, birthday |-> record.birthday]), d)

show_birthday(args, d) == InputError(show_birthday_body(args, d))

\* birthdays, undecorated
birthdays_body(args, d, today) ==
    LET upcoming_birthdays == GetUpcomingBirthdays(d, DefaultDays, today)
    IN  IF ~upcoming_birthdays.ok THEN upcoming_birthdays
        ELSE IF upcoming_birthdays.val = <<>>
        THEN OnData(Ok(Out("No upcoming birthdays in the next week.")), d)
        ELSE OnData(Ok([text |-> "Upcoming birthdays:",
                        records |-> upcoming_birthdays.val]), d)

birthdays(args, d, today) == InputError(birthdays_body(args, d, today))

-----------------------------------------------------------------------------
(* main() and parse_input *)

Space == " "

\* str.split(): the maximal runs of non-whitespace characters
Split(s) == SelectSeq(SplitOn(s, Space), LAMBDA w : Len(w) > 0)

UpperChars == <<"A", "B", "C", "D", "E", "F", "G", "H", "I", "J", "K", "L", "M",
                "N", "O", "P", "Q", "R", "S", "T", "U", "V", "W", "X", "Y", "Z">>
LowerChars == <<"a", "b", "c", "d", "e", "f", "g", "h", "i", "j", "k", "l", "m",
                "n", "o", "p", "q", "r", "s", "t", "u", "v", "w", "x", "y", "z">>

LowerChar(c) ==
    IF \E i \in 1..Len(UpperChars) : UpperChars[i] = c
    THEN LowerChars[CHOOSE i \in 1..Len(UpperChars) : UpperChars[i] = c]
    ELSE c

\* str.lower()
Lower(s) == [i \in 1..Len(s) |-> LowerChar(s[i])]

\* parse_input: parts[0] of an empty list raises IndexError
parse_input(user_input) ==
    LET parts == Split(user_input)
    IN  IF Len(parts) = 0 THEN Raise("IndexError", "list index out of range")
        ELSE Ok([command |-> Lower(parts[1]), args |-> Tail(parts)])

W_close == <<"c", "l", "o", "s", "e">>
W_exit == <<"e", "x", "i", "t">>
W_hello == <<"h", "e", "l", "l", "o">>
W_add == <<"a", "d", "d">>
W_change == <<"c", "h", "a", "n", "g", "e">>
W_phone == <<"p", "h", "o", "n", "e">>
W_all == <<"a", "l", "l">>
W_add_birthday == W_add \o <<"-", "b", "i", "r", "t", "h", "d", "a", "y">>
W_show_birthday ==
    <<"s", "h", "o", "w", "-", "b", "i", "r", "t", "h", "d", "a", "y">>
W_birthdays == <<"b", "i", "r", "t", "h", "d", "a", "y", "s">>

\* the if/elif chain of main(): [r, pc, saved], r the outcome of the pass
\* with the text printed as its value.  An exception no handler catches
\* ends the process.
Dispatch(command, args, d, sv, today) ==
    LET Go(r) == [r |-> r, pc |-> IF r.ok THEN "loop" ELSE "crashed", saved |-> sv]
    IN  IF command \in {W_close, W_exit}
        THEN [r |-> OnData(Ok(Out("Good bye!")), d), pc |-> "exited", saved |-> d]
        ELSE IF command = W_hello
        THEN Go(OnData(Ok(Out("How can I help you?")), d))
        ELSE IF command = W_add THEN Go(add_contact(args, d))
        ELSE IF command = W_change THEN Go(change_contact(args, d))
        ELSE IF command = W_phone THEN Go(show_phone(args, d))
        ELSE IF command = W_all THEN Go(show_all_contacts(d))
        ELSE IF command = W_add_birthday THEN Go(add_birthday(args, d))
        ELSE IF command = W_show_birthday THEN Go(show_birthday(args, d))
        ELSE IF command = W_birthdays THEN Go(birthdays(args, d, today))
        ELSE Go(OnData(Ok(Out("Invalid command.")), d))

\* one pass of the while loop of main() after input() returned user_input;
\* parse_input is called outside every handler
MainPass(user_input, d, sv, today) ==
    \* p is bound once
    LET Pass(p) ==
            IF ~p.ok THEN [r |-> OnData(p, d), pc |-> "crashed", saved |-> sv]
            ELSE Dispatch(p.val.command, p.val.args, d, sv, today)
    IN  Pass(parse_input(user_input))

-----------------------------------------------------------------------------
(* Inputs *)

NameA == <<"A">>
NameB == <<"B">>
Names == {NameA, NameB}

Digits0 == Rep("0", 10)
Digits1 == Rep("1", 10)
\* ten characters, the last of them a digit that is not 0-9
WithSuperscript == Rep("1", 9) \o <<SuperscriptTwo>>
NineDigits == Rep("1", 9)
ElevenDigits == Rep("1", 11)
WithLetter == Rep("1", 9) \o <<"x">>
Empty == <<>>

GoodPhones == {Digits0, Digits1}
BadPhones == {NineDigits, ElevenDigits, WithLetter, Empty}
PhoneInputs == GoodPhones \cup BadPhones \cup {WithSuperscript}

Bday_15_03_1990 == <<"1", "5", ".", "0", "3", ".", "1", "9", "9", "0">>
Bday_16_03_1990 == <<"1", "6", ".", "0", "3", ".", "1", "9", "9", "0">>
Bday_29_02_2000 == <<"2", "9", ".", "0", "2", ".", "2", "0", "0", "0">>
Bday_29_02_2023 == <<"2", "9", ".", "0", "2", ".", "2", "0", "2", "3">>
Bday_slashes == <<"1", "5", "/", "0", "3", "/", "1", "9", "9", "0">>

GoodBirthdays == {Bday_15_03_1990, Bday_16_03_1990, Bday_29_02_2000}
BadBirthdays == {Bday_29_02_2023, Bday_slashes}

\* the values datetime.now().date() takes in the model
TodayInputs ==
    { Date(2024, 3, 8), Date(2024, 3, 15), Date(2024, 3, 17),
      Date(2024, 2, 22), Date(2023, 3, 10) }

DaysInputs == {DefaultDays, 0}

RECURSIVE AddPhones(_, _)
AddPhones(rec, phones) ==
    IF Len(phones) = 0 THEN rec
    ELSE AddPhones(AddPhone(rec, Head(phones)).rec, Tail(phones))

\* a record as a caller of add_record builds it: Record(name), then
\* add_phone for each of phones and add_birthday (birthday = Empty: none)
Built(name, phones, birthday) ==
    LET r == AddPhones(Record(name), phones)
    IN  IF birthday = Empty THEN r ELSE AddBirthday(r, birthday).rec

-----------------------------------------------------------------------------
(* State *)

NoArgs == <<>>
NoKey == <<>>

Call(op, key, args, today, days, r) ==
    [op |-> op, key |-> key, args |-> args, today |-> today, days |-> days,
     res |-> [ok |-> r.ok, exc |-> r.exc, msg |-> r.msg, val |-> r.val]]

Bounded(d) == \A i \in 1..Len(d) : Len(d[i].rec.phones) <= MaxPhones

\* load_data() with no file: AddressBook()
Init ==
    /\ data = <<>>
    /\ last = Call("load_data", NoKey, NoArgs, None, 0, Ok(None))
    /\ pc = "loop"
    /\ saved = None

\* a method of the record book.find(name) returns, with outcome r
OnRecord(op, name, args, r) ==
    /\ pc = "loop"
    /\ data' = DictSet(data, name, r.rec)
    /\ Bounded(data')
    /\ last' = Call(op, name, args, None, 0, r)
    /\ UNCHANGED <<pc, saved>>

\* a call that takes the book, with outcome r
OnBook(op, key, args, today, days, r) ==
    /\ pc = "loop"
    /\ data' = r.data
    /\ Bounded(data')
    /\ last' = Call(op, key, args, today, days, r)
    /\ UNCHANGED <<pc, saved>>

-----------------------------------------------------------------------------
(* Calls of the Record and AddressBook methods, with inputs from the sets  *)
(* given                                                                   *)

RecordAddPhone(phones) ==
    \E name \in Keys(data), phone \in phones :
        OnRecord("add_phone", name, <<phone>>,
                 AddPhone(Find(data, name), phone))

RecordRemovePhone(phones) ==
    \E name \in Keys(data), phone \in phones :
        OnRecord("remove_phone", name, <<phone>>,
                 RemovePhone(Find(data, name), phone))

RecordEditPhone(olds, news) ==
    \E name \in Keys(data), old_phone \in olds, new_phone \in news :
        OnRecord("edit_phone", name, <<old_phone, new_phone>>,
                 EditPhone(Find(data, name), old_phone, new_phone))

RecordAddBirthday(bdays) ==
    \E name \in Keys(data), birthday \in bdays :
        OnRecord("add_birthday", name, <<birthday>>,
                 AddBirthday(Find(data, name), birthday))

RecordDaysToBirthday(todays) ==
    \E name \in Keys(data), today \in todays :
        /\ pc = "loop"
        /\ last' = Call("days_to_birthday", name, NoArgs, today, 0,
                        DaysToBirthday(Find(data, name), today))
        /\ UNCHANGED <<data, pc, saved>>

BookAddRecord(records) ==
    \E record \in records :
        OnBook("add_record", record.name, <<record>>, None, 0,
               OnData(Ok(None), AddRecord(data, record)))

BookFind(names) ==
    \E name \in names :
        OnBook("find", name, NoArgs, None, 0,
               OnData(Ok(Find(data, name)), data))

BookDelete(names) ==
    \E name \in names :
        OnBook("delete", name, NoArgs, None, 0, Delete(data, name))

BookGetUpcomingBirthdays(dayss, todays) ==
    \E days \in dayss, today \in todays :
        OnBook("get_upcoming_birthdays", NoKey, NoArgs, today, days,
               GetUpcomingBirthdays(data, days, today))

-----------------------------------------------------------------------------
(* Calls of the command functions *)

\* the argument lists of at most three words: names first, then words
ArgLists(names, seconds, thirds) ==
    {NoArgs} \cup {<<n>> : n \in names}
        \cup {<<n, w>> : n \in names, w \in seconds}
        \cup {<<n, w, x>> : n \in names, w \in seconds, x \in thirds}

CmdAdd(argss) ==
    \E args \in argss :
        OnBook("add", NoKey, args, None, 0, add_contact(args, data))

CmdChange(argss) ==
    \E args \in argss :
        OnBook("change", NoKey, args, None, 0, change_contact(args, data))

CmdPhone(argss) ==
    \E args \in argss :
        OnBook("phone", NoKey, args, None, 0, show_phone(args, data))

CmdAll ==
    OnBook("all", NoKey, NoArgs, None, 0, show_all_contacts(data))

CmdAddBirthday(argss) ==
    \E args \in argss :
        OnBook("add-birthday", NoKey, args, None, 0, add_birthday(args, data))

CmdShowBirthday(argss) ==
    \E args \in argss :
        OnBook("show-birthday", NoKey, args, None, 0,
               show_birthday(args, data))

CmdBirthdays(todays) ==
    \E today \in todays :
        OnBook("birthdays", NoKey, NoArgs, today, 0,
               birthdays(NoArgs, data, today))

-----------------------------------------------------------------------------
(* The command loop *)

RECURSIVE Line(_)
\* the words typed with one space between them
Line(words) ==
    IF Len(words) = 0 THEN <<>>
    ELSE IF Len(words) = 1 THEN words[1]
    ELSE words[1] \o <<Space>> \o Line(Tail(words))

LineInputs ==
    { <<>>, <<Space>>, <<Space, Space>>,
      W_hello, <<Space>> \o W_hello \o <<Space>>, <<"f", "o", "o">>,
      W_close, W_exit, <<"E", "x", "i", "t">>,
      W_add, Line(<<W_add, NameA>>),
      Line(<<W_add, NameA, Digits0>>), Line(<<W_add, NameA, NineDigits>>),
      Line(<<<<"A", "D", "D">>, NameA, Digits1, Digits0>>),
      Line(<<W_add, NameB, WithLetter>>),
      Line(<<W_change, NameA>>),
      Line(<<W_change, NameA, Digits0, Digits1>>),
      Line(<<W_change, NameA, Digits1, WithLetter>>),
      Line(<<W_change, NameB, Digits0, Digits1>>),
      Line(<<W_phone, NameA, NameB>>),
      W_phone, Line(<<W_phone, NameA>>), W_all,
      Line(<<W_add_birthday, NameA>>),
      Line(<<W_add_birthday, NameA, Bday_15_03_1990>>),
      Line(<<W_add_birthday, NameB, Bday_29_02_2000>>),
      Line(<<W_add_birthday, NameA, Bday_slashes>>),
      W_show_birthday, Line(<<W_show_birthday, NameA>>),
      W_birthdays }

MainTodays == {Date(2024, 3, 8), Date(2023, 3, 10)}

\* the pass reads the clock (birthdays command)
ReadsClock(user_input) ==
    LET parts == Split(user_input)
    IN  Len(parts) > 0 /\ Lower(parts[1]) = W_birthdays

\* one pass of the loop: input() returns a line, the command runs, its
\* response is printed; today is what the clock shows if the pass reads it
MainStep(lines, todays) ==
    \E user_input \in lines :
        \E today \in IF ReadsClock(user_input) THEN todays ELSE {None} :
            \E m \in {MainPass(user_input, data, saved, today)} :
                /\ pc = "loop"
                /\ data' = m.r.data
                /\ Bounded(data')
                /\ last' = Call("main", NoKey, <<user_input>>, today, 0, m.r)
                /\ pc' = m.pc
                /\ saved' = m.saved

-----------------------------------------------------------------------------
(* Specifications *)

\* Phone lists: one record, every phone operation, and the commands that
\* reach them
NextPhones ==
    \/ BookAddRecord({Built(NameA, ps, Empty) : ps \in {<<>>, <<Digits0>>}})
    \/ RecordAddPhone(PhoneInputs)
    \/ RecordRemovePhone(GoodPhones \cup {WithSuperscript, WithLetter})
    \/ RecordEditPhone(GoodPhones \cup {WithSuperscript},
                       GoodPhones \cup {WithSuperscript, NineDigits, WithLetter})
    \/ CmdAdd(ArgLists({NameA}, PhoneInputs, {}))
    \/ CmdChange(ArgLists({NameA}, GoodPhones \cup {WithLetter},
                          GoodPhones \cup {ElevenDigits}))

Spec == Init /\ [][NextPhones]_vars

\* The book: two names, every operation that changes a record or the book
NextBook ==
    \/ BookAddRecord({Built(n, ps, b) : n \in Names,
                                        ps \in {<<>>, <<Digits0>>},
                                        b \in {Empty, Bday_15_03_1990}})
    \/ BookFind(Names)
    \/ BookDelete(Names)
    \/ RecordAddPhone({Digits0, NineDigits})
    \/ RecordRemovePhone({Digits0})
    \/ RecordEditPhone({Digits0}, {Digits0, WithLetter})
    \/ RecordAddBirthday({Bday_15_03_1990, Bday_29_02_2023})
    \/ CmdAdd(ArgLists(Names, {Digits0, NineDigits}, {}))
    \/ CmdChange(ArgLists(Names, {Digits0}, {Digits0, WithLetter}))
    \/ CmdAddBirthday(ArgLists(Names, {Bday_15_03_1990, Bday_slashes}, {}))
    \/ CmdPhone(ArgLists(Names, {}, {}))
    \/ CmdAll

SpecBook == Init /\ [][NextBook]_vars

\* Birthdays: two names, no phones, the birthday queries
NextBirthdays ==
    \/ BookAddRecord({Built(n, <<>>, b) : n \in Names,
                                          b \in {Empty} \cup GoodBirthdays})
    \/ RecordAddBirthday(GoodBirthdays \cup BadBirthdays)
    \/ RecordDaysToBirthday(TodayInputs)
    \/ BookGetUpcomingBirthdays(DaysInputs, TodayInputs)
    \/ CmdBirthdays(TodayInputs)
    \/ CmdShowBirthday(ArgLists(Names, {}, {}))

SpecBirthdays == Init /\ [][NextBirthdays]_vars

\* The command loop
NextMain == MainStep(LineInputs, MainTodays)

SpecMain == Init /\ [][NextMain]_vars

\* The calendar: days_to_birthday for every birthday of a leap year and
\* every today of FirstYear..LastYear
Digit2(n) == <<DigitChars[(n \div 10) + 1], DigitChars[(n % 10) + 1]>>

\* date.strftime("%d.%m.%Y")
Strftime(dt) ==
    Digit2(dt.day) \o <<".">> \o Digit2(dt.month) \o <<".">>
        \o Digit2(dt.year \div 100) \o Digit2(dt.year % 100)

DatesOf(years) ==
    { Date(y, m, d) : y \in years, m \in 1..12, d \in 1..31 }
        \ { dt \in { Date(y, m, d) : y \in years, m \in 1..12, d \in 29..31 } :
              ~ValidDate(dt.year, dt.month, dt.day) }

\* the years the birthdays are drawn from: a leap year
BirthYears == {2000}

\* load_data() with a file: a book saved with one record and its birthday
InitCalendar ==
    /\ \E dt \in DatesOf(BirthYears) :
           data = AddRecord(<<>>, Built(NameA, <<>>, Strftime(dt)))
    /\ last = Call("load_data", NoKey, NoArgs, None, 0, Ok(None))
    /\ pc = "loop"
    /\ saved = None

NextCalendar ==
    /\ last.op = "load_data"
    /\ RecordDaysToBirthday(DatesOf(FirstYear..LastYear))

SpecCalendar == InitCalendar /\ [][NextCalendar]_vars

-----------------------------------------------------------------------------
(* Properties *)

\* a digit: a character of Unicode Numeric_Type Digit or Decimal
Digit(c) ==
    c \in {"0", "1", "2", "3", "4", "5", "6", "7", "8", "9", SuperscriptTwo}

TenDigits(s) == Len(s) = 10 /\ \A k \in 1..Len(s) : Digit(s[k])

PhonesOf(d, name) == d[CHOOSE i \in 1..Len(d) : d[i].key = name].rec.phones

SuccessTexts ==
    {"Contact added.", "Contact updated.", "Phone number updated.",
     "Birthday added."}

C8_EditInPlace ==
    [][ LET edited == last'.op = "edit_phone" /\ last'.res.ok
            changed == /\ last'.op = "change"
                       /\ last'.res.val.text = "Phone number updated."
        IN  (edited \/ changed) =>
            LET name == IF edited THEN last'.key ELSE last'.args[1]
                old == IF edited THEN last'.args[1] ELSE last'.args[2]
                new == IF edited THEN last'.args[2] ELSE last'.args[3]
                before == PhonesOf(data, name)
                after == PhonesOf(data', name)
            IN  \E i \in 1..Len(before) :
                    /\ before[i] = old
                    /\ \A j \in 1..(i - 1) : before[j] # old
                    /\ Len(after) = Len(before)
                    /\ after[i] = new
                    /\ \A j \in 1..Len(before) : j # i => after[j] = before[j]
      ]_vars

\* an edit that changed the first of two equal entries, the second stays
C8_Witness ==
    /\ last.op = "edit_phone"
    /\ last.res.ok
    /\ last.args[1] # last.args[2]
    /\ \E i \in 1..Len(PhonesOf(data, last.key)) :
           \E j \in (i + 1)..Len(PhonesOf(data, last.key)) :
               /\ PhonesOf(data, last.key)[i] = last.args[2]
               /\ PhonesOf(data, last.key)[j] = last.args[1]

\* C9: a successful remove_phone(p) deletes the first entry equal to p and
\* nothing else: the list is one shorter, the entries before it and after
\* it keep their order
C9_RemoveFirstMatch ==
    [][ (last'.op = "remove_phone" /\ last'.res.ok) =>
            LET p == last'.args[1]
                before == PhonesOf(data, last'.key)
                after == PhonesOf(data', last'.key)
            IN  \E i \in 1..Len(before) :
                    /\ before[i] = p
                    /\ \A j \in 1..(i - 1) : before[j] # p
                    /\ Len(after) = Len(before) - 1
                    /\ \A j \in 1..(i - 1) : after[j] = before[j]
                    /\ \A j \in i..Len(after) : after[j] = before[j + 1]
      ]_vars

\* a removal that left a later duplicate behind another number
C9_Witness ==
    /\ last.op = "remove_phone"
    /\ last.res.ok
    /\ Len(PhonesOf(data, last.key)) = 2
    /\ PhonesOf(data, last.key)[1] # last.args[1]
    /\ PhonesOf(data, last.key)[2] = last.args[1]

\* C2: a Record or AddressBook call that raises leaves the book as it was;
\* edit_phone raises for an absent old number and for an invalid new one,
\* add_phone for an invalid number, remove_phone for an absent number,
\* add_birthday for a date that does not parse, and delete of an absent
\* name raises "Record not found."
C2_FailedCallChangesNothing ==
    [][ /\ (/\ last'.op \in {"add_phone", "remove_phone", "edit_phone",
                            "add_birthday", "delete"}
            /\ ~last'.res.ok)
           => data' = data
        /\ (last'.op = "edit_phone"
              /\ (\/ \A j \in 1..Len(PhonesOf(data, last'.key)) :
                         PhonesOf(data, last'.key)[j] # last'.args[1]
                  \/ ~TenDigits(last'.args[2])))
           => ~last'.res.ok
        /\ (last'.op = "add_phone" /\ ~TenDigits(last'.args[1]))
           => ~last'.res.ok
        /\ (last'.op = "remove_phone"
              /\ \A j \in 1..Len(PhonesOf(data, last'.key)) :
                     PhonesOf(data, last'.key)[j] # last'.args[1])
           => ~last'.res.ok
        /\ (last'.op = "add_birthday" /\ last'.args[1] \in BadBirthdays)
           => ~last'.res.ok
        /\ (last'.op = "delete" /\ last'.key \notin Keys(data))
           => (~last'.res.ok /\ last'.res.msg = "Record not found.")
      ]_vars

\* edit_phone found the old number and refused the new one
C2_Witness ==
    /\ last.op = "edit_phone"
    /\ ~last.res.ok
    /\ last.res.msg = "The phone number must contain only numbers"
    /\ \E j \in 1..Len(PhonesOf(data, last.key)) :
           PhonesOf(data, last.key)[j] = last.args[1]

\* C3: an add, change or add-birthday command that answers with anything
\* but its success message leaves the book as it was
C3_FailedCommandChangesNothing ==
    [][ (/\ last'.op \in {"add", "change", "add-birthday"}
         /\ last'.res.val.text \notin SuccessTexts)
        => data' = data
      ]_vars

\* the same for change, add-birthday and an add to a name already there
FailedCommandExceptNewName ==
    [][ (/\ last'.op \in {"add", "change", "add-birthday"}
         /\ last'.res.val.text \notin SuccessTexts
         /\ (last'.op = "add" /\ Len(last'.args) >= 1)
                => last'.args[1] \in Keys(data))
        => data' = data
      ]_vars

\* C7: after add_record(r) the book holds r under r.name, once; a record
\* that was there under that name is replaced, not merged; the entries of
\* the other names are as before; find returns the record of the name
C7_AddRecordLastWriteWins ==
    [][ /\ last'.op = "add_record" =>
            LET r == last'.args[1]
            IN  /\ Cardinality({i \in 1..Len(data') : data'[i].key = r.name}) = 1
                /\ \E i \in 1..Len(data') :
                       data'[i].key = r.name /\ data'[i].rec = r
                /\ Keys(data') = Keys(data) \cup {r.name}
                /\ \A i \in 1..Len(data) : data[i].key # r.name =>
                       \E j \in 1..Len(data') : data'[j] = data[i]
        /\ last'.op = "find" =>
            /\ data' = data
            /\ \/ /\ last'.key \notin Keys(data)
                  /\ last'.res.val = None
               \/ \E i \in 1..Len(data) :
                      data[i].key = last'.key /\ data[i].rec = last'.res.val
      ]_vars

\* add_record of a record without phones under a name the book already
\* held (its entry is older than the other name's)
C7_Witness ==
    /\ last.op = "add_record"
    /\ Len(data) = 2
    /\ data[1].key = last.key
    /\ data[1].rec.phones = <<>>
    /\ data[2].rec.phones # <<>>

\* every key of the book is the name of the record under it, no two
\* entries have the same key, and find(name) returns no record of another
\* name
KeysAreNames ==
    /\ \A i \in 1..Len(data) : data[i].key = data[i].rec.name
    /\ \A i, j \in 1..Len(data) : data[i].key = data[j].key => i = j
    /\ (last.op = "find" /\ last.res.val # None)
           => last.res.val.name = last.key

\* no call changes the name of a record that stays in the book
NamesNeverChange ==
    [][ \A n \in Keys(data) \cap Keys(data') :
            \A i \in 1..Len(data), j \in 1..Len(data') :
                (data[i].key = n /\ data'[j].key = n)
                    => data'[j].rec.name = data[i].rec.name
      ]_vars

\* C10: in every reachable state each key of the book is the name of the
\* record stored under it, so no two records share a name and find(name)
\* returns no record of another name; and no call changes a record's name
C10_KeysAreNames == []KeysAreNames /\ NamesNeverChange

\* two records in the book, the second put there by the add command
C10_Witness ==
    /\ Len(data) = 2
    /\ last.op = "add"
    /\ last.res.val.text = "Contact added."
    /\ data[2].key = last.args[1]

\* the number of days from today to the first date on or after today that
\* has the month and the day of birthday
DaysToNext(birthday, today) ==
    LET years == { y \in today.year..(today.year + 8) :
                     /\ ValidDate(y, birthday.month, birthday.day)
                     /\ ToOrdinal(Date(y, birthday.month, birthday.day))
                            >= ToOrdinal(today) }
        first == CHOOSE y \in years : \A z \in years : y <= z
    IN  ToOrdinal(Date(first, birthday.month, birthday.day)) - ToOrdinal(today)

IsLeapDay(dt) == dt.month = 2 /\ dt.day = 29

\* what the claim says days_to_birthday of rec returned, given res
DaysToBirthdayAsClaimed(rec, today, res) ==
    IF rec.birthday = None THEN res.ok /\ res.val = None
    ELSE /\ res.ok
         /\ res.val # None
         /\ res.val.int >= 0
         /\ res.val.int = DaysToNext(rec.birthday, today)
         /\ (rec.birthday.month = today.month /\ rec.birthday.day = today.day)
                => res.val.int = 0

\* C5: for every birthday, 29 February included, and every today,
\* days_to_birthday returns the number of days (>= 0, 0 on the day) from
\* today to the next occurrence of the birthday's month and day on or after
\* today; without a birthday it returns None
C5_DaysToBirthday ==
    last.op = "days_to_birthday" =>
        DaysToBirthdayAsClaimed(Find(data, last.key), last.today, last.res)

\* the same for the birthdays that are not on 29 February: this year's
\* occurrence, or next year's when this year's is before today
DaysToBirthdayExceptLeapDay ==
    (/\ last.op = "days_to_birthday"
     /\ Find(data, last.key).birthday # None => ~IsLeapDay(Find(data, last.key).birthday))
    => /\ DaysToBirthdayAsClaimed(Find(data, last.key), last.today, last.res)
       /\ (/\ last.today = Date(2024, 3, 10)
           /\ Find(data, last.key).birthday # None
           /\ Find(data, last.key).birthday.month = 3
           /\ Find(data, last.key).birthday.day = 15)
          => last.res.val.int = 5

\* the records of the book, in its order, that have a birthday at most days
\* days ahead
UpcomingAsClaimed(d, days, today) ==
    SelectSeq([i \in 1..Len(d) |-> d[i].rec],
              LAMBDA r : r.birthday # None
                         /\ DaysToNext(r.birthday, today) <= days)

\* C6: get_upcoming_birthdays returns exactly the records that have a
\* birthday at most withinDays days ahead, each once and in the book's
\* order, and leaves the book as it was
C6_UpcomingBirthdays ==
    [][ last'.op = "get_upcoming_birthdays" =>
            /\ last'.res.ok
            /\ last'.res.val = UpcomingAsClaimed(data, last'.days, last'.today)
            /\ data' = data
      ]_vars

\* the same for the books whose birthdays are not on 29 February
UpcomingExceptLeapDay ==
    [][ (/\ last'.op = "get_upcoming_birthdays"
         /\ \A i \in 1..Len(data) :
                data[i].rec.birthday # None => ~IsLeapDay(data[i].rec.birthday))
        => /\ last'.res.ok
           /\ last'.res.val = UpcomingAsClaimed(data, last'.days, last'.today)
           /\ data' = data
      ]_vars

\* the command of the pass of the loop that last ran
LastCommand == Lower(Split(last.args[1])[1])

\* C4: no input line ends the process: every pass of the loop prints a
\* response and is back at the prompt, except after close or exit, where
\* the loop ends with the book saved
C4_LoopNeverCrashes ==
    /\ pc \in {"loop", "exited"}
    /\ last.op = "main" =>
           /\ last.res.ok
           /\ pc = "exited" <=> LastCommand \in {W_close, W_exit}
    /\ pc = "exited" => saved = data

\* the same for the lines that hold a word
LoopExceptBlankLine ==
    (last.op = "main" /\ Len(Split(last.args[1])) > 0) =>
        /\ pc \in {"loop", "exited"}
        /\ last.res.ok
        /\ pc = "exited" <=> LastCommand \in {W_close, W_exit}
        /\ pc = "exited" => saved = data

====
